---- MODULE Spec2Model ----
(***************************************************************************)
(* A model of dcf.py: the numeric safety layer (safe_float), the metrics   *)
(* extraction, the growth estimator, the WACC engine, the DCF projector    *)
(* and the valuation assembly of the main run.                             *)
(*                                                                         *)
(* Numbers.  A Python float is modelled as an exact fraction <<n, d>> in   *)
(* lowest terms with d > 0; rounding error is not modelled.  The three     *)
(* non-finite floats are <<1, 0>> (inf), <<-1, 0>> (-inf) and <<0, 0>>     *)
(* (nan).  Money amounts and share counts are counted in units of 10^9     *)
(* (the literal 1e9 of the source is the fraction 1/1), prices and rates   *)
(* in units of 1; every formula of the program is a ratio or a product of  *)
(* one amount with pure rates, so the change of unit changes no result.    *)
(***************************************************************************)
EXTENDS Integers, Sequences, FiniteSets, TLC

VARIABLES
    pc,              \* position of the run being modelled
    sf_value,        \* safe_float: argument value
    sf_default,      \* safe_float: argument default
    sf_result,       \* safe_float: returned value, or the exception that escaped
    overview,        \* company overview record, field -> raw value
    cash_data,       \* latest annual cash-flow report, field -> raw value
    balance_data,    \* latest annual balance-sheet report, field -> raw value
    ocf, capex, fcf, net_debt, shares_outstanding, market_cap, current_price,
    all_growth_rates, wacc, terminal_growth, years,   \* arguments of calculate_dcf
    cash_flows,      \* calculate_dcf: the projected cash flows
    dcf_value,       \* what calculate_dcf returned, or the failure it reported
    intrinsic_value,
    verdict,         \* the verdict line printed
    fetch_ok,        \* request -> whether the provider answers it
    cash_flow,       \* annual cash-flow reports, newest first: each one's freeCashFlow
    estimates_data,  \* analyst estimates: records of estimatedRevenueAvg and year
    fmp_income,      \* income statements of the second provider: each one's revenue
    avg_fcf_growth, eps_growth_1to5, avg_revenue_growth_1to5,
    growth_1to5, growth_6to10,
    halted,          \* the exception that ended the main run, "" while it runs
    income_data,     \* latest annual income statement, field -> raw value
    beta, market_value_equity,                                \* calculate_wacc, line 150
    total_debt, interest_expense, taxes_paid, pre_tax_income, \* calculate_wacc, line 151
    wacc_info        \* the record calculate_wacc returns

sfVars == <<sf_value, sf_default, sf_result>>
rawVars == <<overview, cash_data, balance_data>>
metricVars == <<ocf, capex, fcf, net_debt, shares_outstanding, market_cap, current_price>>
dcfArgs == <<all_growth_rates, wacc, terminal_growth, years>>
dcfVars == <<cash_flows, dcf_value>>
outVars == <<intrinsic_value, verdict>>
feedVars == <<fetch_ok, cash_flow, estimates_data, fmp_income, income_data>>
waccVars ==
    <<beta, market_value_equity, total_debt, interest_expense, taxes_paid, pre_tax_income,
      wacc_info>>
growthVars ==
    <<avg_fcf_growth, eps_growth_1to5, avg_revenue_growth_1to5, growth_1to5, growth_6to10,
      halted>>

(***************************************************************************)
(* Float arithmetic                                                        *)
(***************************************************************************)
Abs(x) == IF x < 0 THEN -x ELSE x

Sgn(x) == IF x > 0 THEN 1 ELSE IF x < 0 THEN -1 ELSE 0

RECURSIVE Gcd(_, _)
Gcd(a, b) == IF b = 0 THEN a ELSE Gcd(b, a % b)

\* The float n/d (d may be negative or 0) in canonical form.
Rat(n, d) ==
    IF d = 0 THEN <<Sgn(n), 0>>
    ELSE LET g == Gcd(Abs(n), Abs(d))
         IN  <<(Sgn(d) * n) \div g, Abs(d) \div g>>

Zero == <<0, 1>>
One == <<1, 1>>
Inf == <<1, 0>>
NaN == <<0, 0>>

IsFinite(x) == x[2] # 0
IsNaN(x) == x = NaN

FNeg(x) == <<-x[1], x[2]>>

\* x * y, cancelling crosswise before multiplying.
FMul(x, y) ==
    IF ~IsFinite(x) \/ ~IsFinite(y) THEN <<Sgn(x[1]) * Sgn(y[1]), 0>>
    ELSE LET g1 == Gcd(Abs(x[1]), y[2])
             g2 == Gcd(Abs(y[1]), x[2])
         IN  <<(x[1] \div g1) * (y[1] \div g2), (x[2] \div g2) * (y[2] \div g1)>>

FAdd(x, y) ==
    IF IsNaN(x) \/ IsNaN(y) THEN NaN
    ELSE IF ~IsFinite(x) THEN (IF ~IsFinite(y) /\ y # x THEN NaN ELSE x)
    ELSE IF ~IsFinite(y) THEN y
    ELSE LET g == Gcd(x[2], y[2])
         IN  Rat(x[1] * (y[2] \div g) + y[1] * (x[2] \div g), (x[2] \div g) * y[2])

FSub(x, y) == FAdd(x, FNeg(y))

\* 1 / y as numpy computes it: a zero divisor gives inf or nan and a warning.
FRecip(y) ==
    IF IsNaN(y) THEN NaN
    ELSE IF ~IsFinite(y) THEN Zero
    ELSE IF y[1] = 0 THEN Inf
    ELSE <<Sgn(y[1]) * y[2], Abs(y[1])>>

\* x / y where an operand is a numpy float64: no exception on a zero divisor.
NpDiv(x, y) == FMul(x, FRecip(y))

\* x / y where the code has made sure that y is not zero.
FDiv(x, y) == FMul(x, FRecip(y))

FLt(x, y) ==
    IF IsNaN(x) \/ IsNaN(y) THEN FALSE
    ELSE IF ~IsFinite(x) THEN x = FNeg(Inf) /\ y # x
    ELSE IF ~IsFinite(y) THEN y = Inf
    ELSE x[1] * y[2] < y[1] * x[2]

FGt(x, y) == FLt(y, x)

FLe(x, y) == FLt(x, y) \/ (~IsNaN(x) /\ x = y)

FAbs(x) == <<Abs(x[1]), x[2]>>

RECURSIVE FPow(_, _)
FPow(x, k) == IF k = 0 THEN One ELSE FMul(x, FPow(x, k - 1))

RECURSIVE FSum(_)
FSum(s) == IF s = <<>> THEN Zero ELSE FAdd(FSum(SubSeq(s, 1, Len(s) - 1)), s[Len(s)])

RECURSIVE FProd(_)
FProd(s) == IF s = <<>> THEN One ELSE FMul(FProd(SubSeq(s, 1, Len(s) - 1)), s[Len(s)])

\* numpy.mean of a non-empty sequence.
FMean(s) == FDiv(FSum(s), <<Len(s), 1>>)

(***************************************************************************)
(* Values as the provider supplies them                                    *)
(***************************************************************************)
\* A Python value: None, a string (a sequence of characters), a number, a
\* container (a list or a dict), or an int too large for a float.
PyNone == [t |-> "None", s |-> <<>>, v |-> Zero]
PyStr(s) == [t |-> "str", s |-> s, v |-> Zero]
PyNum(v) == [t |-> "num", s |-> <<>>, v |-> v]
PyList == [t |-> "list", s |-> <<>>, v |-> Zero]
PyBigInt == [t |-> "bigint", s |-> <<>>, v |-> Zero]

Digits == {"0", "1", "2", "3", "4", "5", "6", "7", "8", "9"}

DigitVal(c) ==
    CASE c = "0" -> 0 [] c = "1" -> 1 [] c = "2" -> 2 [] c = "3" -> 3
      [] c = "4" -> 4 [] c = "5" -> 5 [] c = "6" -> 6 [] c = "7" -> 7
      [] c = "8" -> 8 [] c = "9" -> 9

\* str.lower() on one character of the alphabet used here.
LowerChar(c) ==
    CASE c = "N" -> "n" [] c = "O" -> "o" [] c = "E" -> "e" [] c = "A" -> "a"
      [] OTHER -> c

Lower(s) == [i \in 1..Len(s) |-> LowerChar(s[i])]

RECURSIVE Strip(_)
Strip(s) ==
    IF s = <<>> THEN s
    ELSE IF s[1] = " " THEN Strip(Tail(s))
    ELSE IF s[Len(s)] = " " THEN Strip(SubSeq(s, 1, Len(s) - 1))
    ELSE s

RECURSIVE DigitsValue(_)
DigitsValue(s) ==
    IF s = <<>> THEN 0 ELSE 10 * DigitsValue(SubSeq(s, 1, Len(s) - 1)) + DigitVal(s[Len(s)])

RECURSIVE Pow10(_)
Pow10(k) == IF k = 0 THEN 1 ELSE 10 * Pow10(k - 1)

AllDigits(s) == \A i \in 1..Len(s) : s[i] \in Digits

\* The outcome of an expression that may raise: the value, or the exception.
Ok(v) == [err |-> "", v |-> v]
Raise(e) == [err |-> e, v |-> Zero]

\* float(str): surrounding blanks are stripped, then an optional sign, then
\* digits with at most one point and at least one digit.  Anything else is a
\* ValueError.
ParseFloat(str) ==
    LET s == Strip(str)
        signed == s # <<>> /\ s[1] \in {"-", "+"}
        body == IF signed THEN Tail(s) ELSE s
        dots == {i \in 1..Len(body) : body[i] = "."}
        ip == IF dots = {} THEN body ELSE SubSeq(body, 1, (CHOOSE i \in dots : TRUE) - 1)
        fp == IF dots = {} THEN <<>>
              ELSE SubSeq(body, (CHOOSE i \in dots : TRUE) + 1, Len(body))
        ok == /\ Cardinality(dots) <= 1
              /\ AllDigits(ip) /\ AllDigits(fp)
              /\ Len(ip) + Len(fp) >= 1
        mag == Rat(DigitsValue(ip) * Pow10(Len(fp)) + DigitsValue(fp), Pow10(Len(fp)))
    IN  IF ~ok THEN Raise("ValueError")
        ELSE IF signed /\ s[1] = "-" THEN Ok(FNeg(mag)) ELSE Ok(mag)

\* str(value).lower() == "none"
StrIsNone(value) ==
    CASE value.t = "None" -> TRUE
      [] value.t = "str" -> Lower(value.s) = <<"n", "o", "n", "e">>
      [] OTHER -> FALSE

\* float(value).  An int beyond the range of a float raises OverflowError.
PyFloat(value) ==
    CASE value.t = "None" -> Raise("TypeError")
      [] value.t = "list" -> Raise("TypeError")
      [] value.t = "bigint" -> Raise("OverflowError")
      [] value.t = "num" -> Ok(value.v)
      [] value.t = "str" -> ParseFloat(value.s)

\* The exceptions safe_float's except clause names.
SafeFloatCaught == {"ValueError", "TypeError"}

\* safe_float(value, default): the float returned, or the exception that escapes.
SafeFloatCall(value, default) ==
    IF value.t = "None" \/ StrIsNone(value) THEN Ok(default)
    ELSE LET r == PyFloat(value)
         IN  IF r.err = "" THEN r
             ELSE IF r.err \in SafeFloatCaught THEN Ok(default)
             ELSE r

\* safe_float as its callers use it (an escaping exception is handled where the
\* caller is modelled).
SafeFloat(value, default) == SafeFloatCall(value, default).v

(***************************************************************************)
(* Metrics extraction (module level, lines 39-54)                          *)
(***************************************************************************)
\* A field the record does not hold.
Absent == [t |-> "absent", s |-> <<>>, v |-> Zero]

\* record.get(key): None when the field is absent.
Get(record, key) == IF record[key] = Absent THEN PyNone ELSE record[key]

\* record.get(key, default)
GetOr(record, key, default) == IF record[key] = Absent THEN default ELSE record[key]

\* 1e9 shares, in units of 10^9.
DefaultShares == One

Fcf(o, c) == IF FLt(c, Zero) THEN FSub(o, c) ELSE FSub(o, FAbs(c))

NetDebt(bal) ==
    FSub(FAdd(SafeFloat(Get(bal, "shortTermDebt"), Zero),
              SafeFloat(Get(bal, "longTermDebt"), Zero)),
         SafeFloat(Get(bal, "cashAndCashEquivalentsAtCarryingValue"), Zero))

SharesOutstanding(ov) == SafeFloat(GetOr(ov, "SharesOutstanding", PyNum(DefaultShares)), Zero)

CurrentPrice(cap, shares) == IF FGt(shares, Zero) THEN FDiv(cap, shares) ELSE Zero

(***************************************************************************)
(* calculate_dcf (lines 182-188)                                           *)
(***************************************************************************)
\* [r] * n
Flat(r, n) == [i \in 1..n |-> r]

\* growth_rates[:t]
Prefix(s, t) == SubSeq(s, 1, IF t < Len(s) THEN t ELSE Len(s))

OnePlus(s) == [i \in 1..Len(s) |-> FAdd(One, s[i])]

\* The projection with the growth of year t left out of year t's cash flow.
CashFlowsLagged(base, growth_rates, n) ==
    [t \in 1..n |-> FMul(base, FProd(OnePlus(Prefix(growth_rates, t - 1))))]

CashFlows(base, growth_rates, n) ==
    [t \in 1..n |-> FMul(base, FProd(OnePlus(Prefix(growth_rates, t))))]

TerminalValue(cfs, w, tg) ==
    NpDiv(FMul(cfs[Len(cfs)], FAdd(One, tg)), FSub(w, tg))

DiscountedCashFlows(cfs, w) ==
    [t \in 1..Len(cfs) |-> NpDiv(cfs[t], FPow(FAdd(One, w), t))]

DiscountedTerminal(cfs, w, tg, n) ==
    NpDiv(TerminalValue(cfs, w, tg), FPow(FAdd(One, w), n))

\* The value returned; the function has no failure exit.
CalculateDcf(base, growth_rates, w, tg, n) ==
    LET cfs == CashFlows(base, growth_rates, n)
    IN  Ok(FAdd(FSum(DiscountedCashFlows(cfs, w)), DiscountedTerminal(cfs, w, tg, n)))

(***************************************************************************)
(* Valuation assembly (lines 205-212)                                      *)
(***************************************************************************)
IntrinsicValue(dcf, debt, shares) == NpDiv(FSub(dcf, debt), shares)

Verdict(intrinsic, price) == IF FGt(intrinsic, price) THEN "Undervalued" ELSE "Overvalued"

\* TERMINAL_GROWTH_RATE = 0.03
TerminalGrowthRate == <<3, 100>>

(***************************************************************************)
(* Growth estimator (lines 57-103, 196-200)                                *)
(***************************************************************************)
\* A JSON number used in arithmetic: anything else raises.
IsNum(raw) == raw.t = "num"

\* A value a function returns: a float, or a tuple of floats.
AFloat(x) == [kind |-> "float", v |-> x, rest |-> <<>>]
ATuple(x, y) == [kind |-> "tuple", v |-> x, rest |-> <<y>>]

\* Fallbacks of fetch_fcf_growth_and_peg: 10% FCF growth, 7% EPS growth.
FcfGrowthFallback == <<1, 10>>
EpsGrowthFallback == <<7, 100>>
\* Fallbacks of fetch_growth_estimate: 6% analyst, 8% historical.
RevenueGrowthFallback == <<3, 50>>
HistoricalGrowthFallback == <<2, 25>>

\* [s[i] / s[i+1] - 1 for i in range(len(s) - 1)] on floats.
GrowthRatios(s) == [i \in 1..(Len(s) - 1) |-> FSub(FDiv(s[i], s[i + 1]), One)]

\* Whether that comprehension divides by zero (ZeroDivisionError).
RatiosRaise(s) == \E i \in 1..(Len(s) - 1) : s[i + 1] = Zero

\* fetch_fcf_growth_and_peg: <<avg_fcf_growth, eps_growth_1to5>>.
FetchFcfGrowthAndPeg(ok, ov, cf) ==
    LET peg == PyFloat(GetOr(ov, "PEGRatio", PyNum(<<5, 2>>)))
        fpe == PyFloat(GetOr(ov, "ForwardPE", PyNum(<<20, 1>>)))
        have == SelectSeq(Prefix(cf, 5), LAMBDA r : r # Absent)
        parsed == [i \in 1..Len(have) |-> PyFloat(have[i])]
        fcf_values == [i \in 1..Len(have) |-> parsed[i].v]
        raises == \/ ~ok.overview \/ peg.err # "" \/ fpe.err # ""
                  \/ ~ok.cash_flow
                  \/ \E i \in 1..Len(have) : parsed[i].err # ""
                  \/ RatiosRaise(fcf_values)
        rates == GrowthRatios(fcf_values)
    IN  IF raises THEN <<FcfGrowthFallback, EpsGrowthFallback>>
        ELSE << IF rates # <<>> THEN FMean(rates) ELSE <<1, 10>>,
                IF FGt(peg.v, Zero) THEN FDiv(fpe.v, FMul(peg.v, <<100, 1>>))
                ELSE <<7, 100>> >>

\* The estimates the loop of fetch_growth_estimate computes a growth for.
Counted(est) ==
    SelectSeq(Prefix(est, 5),
              LAMBDA e : e.estimatedRevenueAvg # Absent /\ est[1].estimatedRevenueAvg # Absent)

\* What fetch_growth_estimate returns on its exception path.
GrowthEstimateFallback == ATuple(RevenueGrowthFallback, HistoricalGrowthFallback)

\* fetch_growth_estimate.
FetchGrowthEstimate(ok, est, inc) ==
    LET cnt == Counted(est)
        raisesEst ==
            \E i \in 1..Len(cnt) :
                \/ ~IsNum(cnt[i].estimatedRevenueAvg) \/ ~IsNum(est[1].estimatedRevenueAvg)
                \/ est[1].estimatedRevenueAvg.v = Zero
                \/ ~IsNum(cnt[i].year) \/ cnt[i].year.v = Zero
        growths ==
            [i \in 1..Len(cnt) |->
                FDiv(FSub(FDiv(cnt[i].estimatedRevenueAvg.v, est[1].estimatedRevenueAvg.v), One),
                     cnt[i].year.v)]
        revs == Prefix(inc, 10)
        raisesInc ==
            \/ \E i \in 1..Len(revs) : ~IsNum(revs[i])
            \/ RatiosRaise([i \in 1..Len(revs) |-> revs[i].v])
    IN  IF ~ok.estimates \/ raisesEst \/ ~ok.fmp_income \/ raisesInc
        THEN GrowthEstimateFallback
        ELSE AFloat(IF growths # <<>> THEN FMean(growths) ELSE <<3, 50>>)

\* numpy.linspace(start, stop, num): num evenly spaced values, stop included.
Linspace(start, stop, num) ==
    LET step == FDiv(FSub(stop, start), <<num - 1, 1>>)
    IN  [k \in 1..num |-> IF k = num THEN stop ELSE FAdd(start, FMul(<<k - 1, 1>>, step))]

\* interpolate_growth_rates with the end points kept.
InterpolateWithEnds(g, tg, n) == Linspace(g, tg, n)

\* interpolate_growth_rates(growth_1to5, terminal_growth, years)
InterpolateGrowthRates(g, tg, n) ==
    LET line == Linspace(g, tg, n + 2) IN SubSeq(line, 2, Len(line) - 1)

\* The years of the near-term rate, and the default years of the interpolation.
NearTermYears == 5
InterpolatedYears == 5

(***************************************************************************)
(* WACC engine (lines 107-180)                                             *)
(***************************************************************************)
\* RISK_FREE_RATE = 0.039, MARKET_RISK_PREMIUM = 0.055
RiskFreeRate == <<39, 1000>>
MarketRiskPremium == <<11, 200>>

\* int(str): surrounding blanks are stripped, then an optional sign, then digits.
ParseInt(str) ==
    LET s == Strip(str)
        signed == s # <<>> /\ s[1] \in {"-", "+"}
        body == IF signed THEN Tail(s) ELSE s
    IN  IF body = <<>> \/ ~AllDigits(body) THEN Raise("ValueError")
        ELSE IF signed /\ s[1] = "-" THEN Ok(<<-DigitsValue(body), 1>>)
        ELSE Ok(<<DigitsValue(body), 1>>)

\* int(value): a float is truncated towards zero.
PyInt(value) ==
    CASE value.t = "None" -> Raise("TypeError")
      [] value.t = "list" -> Raise("TypeError")
      [] value.t = "bigint" -> Ok(value.v)
      [] value.t = "num" -> Ok(<<Sgn(value.v[1]) * (Abs(value.v[1]) \div value.v[2]), 1>>)
      [] value.t = "str" -> ParseInt(value.s)

\* Fallbacks of fetch_market_value_equity: 1.2 and 200.0 * 1e9.
BetaFallback == <<6, 5>>
EquityFallback == <<200, 1>>
\* Fallbacks of fetch_debt_expense_taxrate: 1e9, 1e7, 1e7, 5e7.
DebtFallback == <<One, <<1, 100>>, <<1, 100>>, <<1, 20>>>>

\* fetch_market_value_equity with each field falling back on its own.
FetchMarketValueEquityPerField(ok, ov) ==
    LET b == PyFloat(GetOr(ov, "Beta", PyNum(<<6, 5>>)))
        shares == PyInt(GetOr(ov, "SharesOutstanding", PyNum(DefaultShares)))
        price == PyFloat(GetOr(ov, "PreviousClose", PyNum(<<200, 1>>)))
    IN  << IF ~ok.overview \/ b.err # "" THEN BetaFallback ELSE b.v,
           IF ~ok.overview \/ shares.err # "" \/ price.err # "" THEN EquityFallback
           ELSE FMul(price.v, shares.v) >>

\* fetch_market_value_equity: <<beta, market_value_equity>>.
FetchMarketValueEquity(ok, ov) ==
    LET b == PyFloat(GetOr(ov, "Beta", PyNum(<<6, 5>>)))
        shares == PyInt(GetOr(ov, "SharesOutstanding", PyNum(DefaultShares)))
        price == PyFloat(GetOr(ov, "PreviousClose", PyNum(<<200, 1>>)))
    IN  IF ~ok.overview \/ b.err # "" \/ shares.err # "" \/ price.err # ""
        THEN <<BetaFallback, EquityFallback>>
        ELSE <<b.v, FMul(price.v, shares.v)>>

\* fetch_debt_expense_taxrate:
\* <<total_debt, interest_expense, taxes_paid, pre_tax_income>>.
FetchDebtExpenseTaxrate(ok, bal, inc) ==
    LET short == SafeFloatCall(GetOr(bal, "shortTermDebt", PyNum(Zero)), Zero)
        long == SafeFloatCall(GetOr(bal, "longTermDebt", PyNum(Zero)), Zero)
        interest == SafeFloatCall(GetOr(inc, "interestExpense", PyNum(Zero)), Zero)
        taxes == SafeFloatCall(GetOr(inc, "incomeTaxExpense", PyNum(Zero)), Zero)
        pretax == SafeFloatCall(GetOr(inc, "incomeBeforeTax", PyNum(Zero)), Zero)
    IN  IF \/ ~ok.balance \/ short.err # "" \/ long.err # ""
           \/ ~ok.income \/ interest.err # "" \/ taxes.err # "" \/ pretax.err # ""
        THEN DebtFallback
        ELSE <<FAdd(short.v, long.v), FAbs(interest.v), taxes.v, pretax.v>>

CostOfEquity(b) == FAdd(RiskFreeRate, FMul(b, MarketRiskPremium))

InterestRate(interest, debt) == IF FGt(debt, Zero) THEN FDiv(interest, debt) ELSE <<3, 100>>

TaxRate(taxes, pretax) == IF FGt(pretax, Zero) THEN FDiv(taxes, pretax) ELSE <<21, 100>>

WeightEquity(equity, debt) ==
    IF FGt(FAdd(equity, debt), Zero) THEN FDiv(equity, FAdd(equity, debt)) ELSE <<4, 5>>

\* The debt weight taken against the equity instead of the total value.
WeightDebtToEquity(equity, debt) ==
    IF FGt(FAdd(equity, debt), Zero) THEN NpDiv(debt, equity) ELSE <<1, 5>>

WeightDebt(equity, debt) ==
    IF FGt(FAdd(equity, debt), Zero) THEN FDiv(debt, FAdd(equity, debt)) ELSE <<1, 5>>

\* The record calculate_wacc returns (the ticker left out).
WaccInfo(b, equity, debt, interest, taxes, pretax) ==
    LET coe == CostOfEquity(b)
        atcd == FMul(InterestRate(interest, debt), FSub(One, TaxRate(taxes, pretax)))
        we == WeightEquity(equity, debt)
        wd == WeightDebt(equity, debt)
    IN  [wacc |-> FAdd(FMul(we, coe), FMul(wd, atcd)),
         cost_of_equity |-> coe,
         after_tax_cost_of_debt |-> atcd,
         weight_equity |-> we,
         weight_debt |-> wd,
         beta |-> b,
         tax_rate |-> TaxRate(taxes, pretax),
         market_value_equity |-> equity,
         total_debt |-> debt]

(***************************************************************************)
(* Actions                                                                 *)
(***************************************************************************)
CallSafeFloat ==
    /\ pc = "safe_float"
    /\ sf_result' = SafeFloatCall(sf_value, sf_default)
    /\ pc' = "done"
    /\ UNCHANGED <<sf_value, sf_default, rawVars, metricVars, dcfArgs, dcfVars, outVars,
                   feedVars, growthVars, waccVars>>

ExtractMetrics ==
    /\ pc = "metrics"
    /\ ocf' = SafeFloat(Get(cash_data, "operatingCashflow"), Zero)
    /\ capex' = SafeFloat(Get(cash_data, "capitalExpenditures"), Zero)
    /\ fcf' = Fcf(ocf', capex')
    /\ net_debt' = NetDebt(balance_data)
    /\ shares_outstanding' = SharesOutstanding(overview)
    /\ market_cap' = SafeFloat(Get(overview, "MarketCapitalization"), Zero)
    /\ current_price' = CurrentPrice(market_cap', shares_outstanding')
    /\ pc' = "calculate_dcf"
    /\ UNCHANGED <<sfVars, rawVars, dcfArgs, dcfVars, outVars, feedVars, growthVars, waccVars>>

RunCalculateDcf ==
    /\ pc = "calculate_dcf"
    /\ cash_flows' = CashFlows(fcf, all_growth_rates, years)
    /\ dcf_value' = CalculateDcf(fcf, all_growth_rates, wacc, terminal_growth, years)
    /\ pc' = "assemble"
    /\ UNCHANGED <<sfVars, rawVars, metricVars, dcfArgs, outVars, feedVars, growthVars, waccVars>>

AssembleValuation ==
    /\ pc = "assemble"
    /\ dcf_value.err = ""
    /\ intrinsic_value' = IntrinsicValue(dcf_value.v, net_debt, shares_outstanding)
    /\ verdict' = Verdict(intrinsic_value', current_price)
    /\ pc' = "done"
    /\ UNCHANGED <<sfVars, rawVars, metricVars, dcfArgs, dcfVars, feedVars, growthVars, waccVars>>

\* Line 196.
RunFetchFcfGrowthAndPeg ==
    /\ pc = "fetch_fcf_growth_and_peg"
    /\ \E r \in {FetchFcfGrowthAndPeg(fetch_ok, overview, cash_flow)} :
          avg_fcf_growth' = r[1] /\ eps_growth_1to5' = r[2]
    /\ pc' = "fetch_growth_estimate"
    /\ UNCHANGED <<sfVars, rawVars, metricVars, dcfArgs, dcfVars, outVars, feedVars, waccVars,
                   avg_revenue_growth_1to5, growth_1to5, growth_6to10, halted>>

\* Line 197.
RunFetchGrowthEstimate ==
    /\ pc = "fetch_growth_estimate"
    /\ avg_revenue_growth_1to5' = FetchGrowthEstimate(fetch_ok, estimates_data, fmp_income)
    /\ pc' = "blend"
    /\ UNCHANGED <<sfVars, rawVars, metricVars, dcfArgs, dcfVars, outVars, feedVars, waccVars,
                   avg_fcf_growth, eps_growth_1to5, growth_1to5, growth_6to10, halted>>

\* Line 198: a tuple plus a float raises TypeError, which nothing catches.
BlendGrowth ==
    /\ pc = "blend"
    /\ IF avg_revenue_growth_1to5.kind = "tuple"
       THEN /\ halted' = "TypeError"
            /\ pc' = "done"
            /\ UNCHANGED growth_1to5
       ELSE /\ growth_1to5' =
                 FDiv(FAdd(FAdd(avg_revenue_growth_1to5.v, eps_growth_1to5), avg_fcf_growth),
                      <<3, 1>>)
            /\ pc' = "path"
            /\ UNCHANGED halted
    /\ UNCHANGED <<sfVars, rawVars, metricVars, dcfArgs, dcfVars, outVars, feedVars, waccVars,
                   avg_fcf_growth, eps_growth_1to5, avg_revenue_growth_1to5, growth_6to10>>

\* Lines 199-200.
BuildGrowthPath ==
    /\ pc = "path"
    /\ growth_6to10' = InterpolateGrowthRates(growth_1to5, TerminalGrowthRate, InterpolatedYears)
    /\ all_growth_rates' = Flat(growth_1to5, NearTermYears) \o growth_6to10'
    /\ pc' = "done"
    /\ UNCHANGED <<sfVars, rawVars, metricVars, wacc, terminal_growth, years, dcfVars, outVars,
                   feedVars, waccVars, avg_fcf_growth, eps_growth_1to5, avg_revenue_growth_1to5,
                   growth_1to5, halted>>

\* calculate_wacc, line 150.
RunFetchMarketValueEquity ==
    /\ pc = "fetch_market_value_equity"
    /\ \E r \in {FetchMarketValueEquity(fetch_ok, overview)} :
          beta' = r[1] /\ market_value_equity' = r[2]
    /\ pc' = "fetch_debt_expense_taxrate"
    /\ UNCHANGED <<sfVars, rawVars, metricVars, dcfArgs, dcfVars, outVars, feedVars, growthVars,
                   total_debt, interest_expense, taxes_paid, pre_tax_income, wacc_info>>

\* calculate_wacc, line 151.
RunFetchDebtExpenseTaxrate ==
    /\ pc = "fetch_debt_expense_taxrate"
    /\ \E r \in {FetchDebtExpenseTaxrate(fetch_ok, balance_data, income_data)} :
          /\ total_debt' = r[1] /\ interest_expense' = r[2]
          /\ taxes_paid' = r[3] /\ pre_tax_income' = r[4]
    /\ pc' = "calculate_wacc"
    /\ UNCHANGED <<sfVars, rawVars, metricVars, dcfArgs, dcfVars, outVars, feedVars, growthVars,
                   beta, market_value_equity, wacc_info>>

\* calculate_wacc, lines 153-180, and the main run's wacc_info["wacc"].
RunCalculateWacc ==
    /\ pc = "calculate_wacc"
    /\ wacc_info' = WaccInfo(beta, market_value_equity, total_debt, interest_expense,
                             taxes_paid, pre_tax_income)
    /\ wacc' = wacc_info'.wacc
    /\ pc' = "done"
    /\ UNCHANGED <<sfVars, rawVars, metricVars, all_growth_rates, terminal_growth, years,
                   dcfVars, outVars, feedVars, growthVars, beta, market_value_equity,
                   total_debt, interest_expense, taxes_paid, pre_tax_income>>

vars ==
    <<pc, sfVars, rawVars, metricVars, dcfArgs, dcfVars, outVars, feedVars, growthVars,
      waccVars>>

(***************************************************************************)
(* Inputs                                                                  *)
(***************************************************************************)
MaxStrLen == 3

Alphabet == {"1", "5", ".", "-", " ", "N", "o"}

RECURSIVE StringsUpTo(_)
StringsUpTo(k) ==
    IF k = 0 THEN {<<>>}
    ELSE LET shorter == StringsUpTo(k - 1)
         IN  shorter \cup {Append(s, c) : s \in shorter, c \in Alphabet}

NamedStrings ==
    { <<"n", "o", "n", "e">>, <<"N", "o", "n", "e">>, <<"N", "O", "N", "E">>,
      <<"1", "2", "3", ".", "4", "5">>, <<"a", "b", "c">>, <<"1", "2", "a">>,
      <<"-", "7">>, <<"1", ".", "2", ".", "3">> }

SfValues ==
    {PyNone, PyList, PyBigInt}
        \cup {PyStr(s) : s \in StringsUpTo(MaxStrLen) \cup NamedStrings}
        \cup {PyNum(v) : v \in {<<123, 1>>, <<-7, 1>>, Zero, <<1, 2>>}}

SfDefaults == {Zero, One}

NoneStr == PyStr(<<"N", "o", "n", "e">>)

\* The state of the parts a run does not use.
IdleSafeFloat == sf_value = PyNone /\ sf_default = Zero /\ sf_result = Ok(Zero)

IdleMetrics ==
    /\ ocf = Zero /\ capex = Zero /\ fcf = Zero /\ net_debt = Zero
    /\ shares_outstanding = Zero /\ market_cap = Zero /\ current_price = Zero

IdleOutputs ==
    /\ cash_flows = <<>> /\ dcf_value = Ok(Zero)
    /\ intrinsic_value = Zero /\ verdict = ""

AllAnswer ==
    [overview |-> TRUE, cash_flow |-> TRUE, estimates |-> TRUE, fmp_income |-> TRUE,
     balance |-> TRUE, income |-> TRUE]

NoIncome ==
    [interestExpense |-> Absent, incomeTaxExpense |-> Absent, incomeBeforeTax |-> Absent]

NoBalance ==
    [shortTermDebt |-> Absent, longTermDebt |-> Absent,
     cashAndCashEquivalentsAtCarryingValue |-> Absent]

NoCashData == [operatingCashflow |-> Absent, capitalExpenditures |-> Absent]

IdleFeeds ==
    /\ fetch_ok = AllAnswer
    /\ cash_flow = <<>> /\ estimates_data = <<>> /\ fmp_income = <<>>
    /\ income_data = NoIncome

IdleWacc ==
    /\ beta = Zero /\ market_value_equity = Zero
    /\ total_debt = Zero /\ interest_expense = Zero /\ taxes_paid = Zero
    /\ pre_tax_income = Zero
    /\ wacc_info = WaccInfo(Zero, Zero, Zero, Zero, Zero, Zero)

IdleGrowth ==
    /\ avg_fcf_growth = Zero /\ eps_growth_1to5 = Zero
    /\ avg_revenue_growth_1to5 = AFloat(Zero)
    /\ growth_1to5 = Zero /\ growth_6to10 = <<>>
    /\ halted = ""

\* An overview without any of the fields read.
NoOverview ==
    [SharesOutstanding |-> Absent, MarketCapitalization |-> Absent,
     PEGRatio |-> Absent, ForwardPE |-> Absent, Beta |-> Absent, PreviousClose |-> Absent]

InitSafeFloat ==
    /\ pc = "safe_float"
    /\ sf_value \in SfValues
    /\ sf_default \in SfDefaults
    /\ sf_result = Ok(Zero)
    /\ overview = NoOverview
    /\ cash_data = NoCashData
    /\ balance_data = NoBalance
    /\ all_growth_rates = <<>> /\ wacc = Zero /\ terminal_growth = Zero /\ years = 0
    /\ IdleMetrics /\ IdleOutputs /\ IdleFeeds /\ IdleGrowth /\ IdleWacc

SpecSafeFloat == InitSafeFloat /\ [][CallSafeFloat]_vars

\* calculate_dcf on its own: the base cash flow, the growth sequence, the
\* discount rate, the terminal rate and the horizon are the caller's.
MaxYears == 3
ExampleYears == 2

DcfBases == {<<3, 1>>, <<-1, 1>>}
DcfRates == {Zero, <<1, 2>>, <<-1, 2>>, One}
DcfWaccs == {Zero, <<1, 4>>, <<1, 2>>, One}
DcfTerminals == {Zero, <<1, 4>>}

RECURSIVE SeqsOfLen(_, _)
SeqsOfLen(S, n) ==
    IF n = 0 THEN {<<>>}
    ELSE {Append(s, x) : s \in SeqsOfLen(S, n - 1), x \in S}

\* <<base, growth rates, wacc, terminal growth>>; the last two rows are the
\* worked cases: base 100 growing 5% a year, discounted at 8% and at 2%, with
\* a terminal growth of 3%.
DcfCalls ==
    UNION {DcfBases \X SeqsOfLen(DcfRates, n) \X DcfWaccs \X DcfTerminals : n \in 1..MaxYears}
        \cup {<<(<<100, 1>>), Flat(<<1, 20>>, n), <<2, 25>>, <<3, 100>>>> : n \in 1..ExampleYears}
        \cup {<<(<<100, 1>>), Flat(<<1, 20>>, n), <<1, 50>>, <<3, 100>>>> : n \in 1..ExampleYears}

InitDcf ==
    /\ pc = "metrics"
    /\ \E c \in DcfCalls :
        /\ cash_data = [operatingCashflow |-> PyNum(c[1]), capitalExpenditures |-> Absent]
        /\ all_growth_rates = c[2]
        /\ years = Len(c[2])
        /\ wacc = c[3]
        /\ terminal_growth = c[4]
    /\ overview = NoOverview
    /\ balance_data = NoBalance
    /\ IdleSafeFloat /\ IdleMetrics /\ IdleOutputs /\ IdleFeeds /\ IdleGrowth /\ IdleWacc

\* The main run from the provider's records on.  The growth path and the
\* discount rate are what the growth estimator and the WACC engine hand over;
\* the terminal rate is TERMINAL_GROWTH_RATE.
PathYears == 2

StrOf(c) == PyStr(<<c>>)

RawOcf == {StrOf("0"), StrOf("5")}
RawCapex == {StrOf("0"), StrOf("2"), PyStr(<<"-", "2">>), NoneStr}
RawShortDebt == {Absent, StrOf("1")}
RawLongDebt == {PyNone, StrOf("3")}
RawCash == {NoneStr, StrOf("1")}
RawShares ==
    {Absent, PyNone, NoneStr, PyStr(<<"a", "b", "c">>), StrOf("2"), PyNum(<<4, 1>>)}
RawMarketCap == {Absent, StrOf("8"), PyStr(<<"1", "0", "0">>)}
PathRates == {Zero, <<1, 2>>}
MainWaccs == {<<1, 50>>, <<1, 2>>}

InitValuation ==
    /\ pc = "metrics"
    /\ overview \in [SharesOutstanding : RawShares, MarketCapitalization : RawMarketCap,
                      PEGRatio : {Absent}, ForwardPE : {Absent}, Beta : {Absent},
                      PreviousClose : {Absent}]
    /\ cash_data \in [operatingCashflow : RawOcf, capitalExpenditures : RawCapex]
    /\ balance_data \in [shortTermDebt : RawShortDebt, longTermDebt : RawLongDebt,
                          cashAndCashEquivalentsAtCarryingValue : RawCash]
    /\ \E r \in PathRates : all_growth_rates = Flat(r, PathYears)
    /\ years = PathYears
    /\ wacc \in MainWaccs
    /\ terminal_growth = TerminalGrowthRate
    /\ IdleSafeFloat /\ IdleMetrics /\ IdleOutputs /\ IdleFeeds /\ IdleGrowth /\ IdleWacc

NextMain == ExtractMetrics \/ RunCalculateDcf \/ AssembleValuation

SpecDcf == InitDcf /\ [][NextMain]_vars

SpecValuation == InitValuation /\ [][NextMain]_vars

\* The growth estimate of the main run.
RawPeg == {Absent, StrOf("1"), StrOf("0"), NoneStr}
RawForwardPe == {Absent, StrOf("3")}
CashFlowFeeds ==
    { <<>>, <<StrOf("5")>>, <<PyStr(<<"1", "0", "3">>), PyStr(<<"1", "0", "0">>)>>,
      <<StrOf("5"), StrOf("0")>>, <<StrOf("2"), Absent, StrOf("1"), NoneStr>>,
      <<StrOf("3"), Absent, StrOf("2"), StrOf("1")>> }
Estimate(r, y) == [estimatedRevenueAvg |-> r, year |-> y]
N(k) == PyNum(<<k, 1>>)
EstimateFeeds ==
    { <<>>, <<Estimate(N(100), N(1))>>,
      <<Estimate(N(100), N(1)), Estimate(N(112), N(2))>>,
      <<Estimate(N(100), N(1)), Estimate(N(84), N(1))>>,
      <<Estimate(N(100), N(1)), Estimate(Absent, N(2)), Estimate(N(130), N(3))>>,
      <<Estimate(N(100), Absent), Estimate(N(110), N(2))>>,
      <<Estimate(N(0), N(1)), Estimate(N(110), N(2))>>,
      <<Estimate(Absent, N(1)), Estimate(N(110), N(2))>> }
FmpIncomeFeeds == { <<>>, <<N(12), N(10)>>, <<N(12), N(0)>>, <<N(12), Absent>> }

InitGrowth ==
    /\ pc = "fetch_fcf_growth_and_peg"
    /\ overview \in [SharesOutstanding : {Absent}, MarketCapitalization : {Absent},
                      PEGRatio : RawPeg, ForwardPE : RawForwardPe,
                      Beta : {Absent}, PreviousClose : {Absent}]
    /\ fetch_ok \in [overview : BOOLEAN, cash_flow : BOOLEAN, estimates : BOOLEAN,
                      fmp_income : BOOLEAN, balance : {TRUE}, income : {TRUE}]
    /\ income_data = NoIncome
    /\ cash_flow \in CashFlowFeeds
    /\ estimates_data \in EstimateFeeds
    /\ fmp_income \in FmpIncomeFeeds
    /\ cash_data = NoCashData
    /\ balance_data = NoBalance
    /\ all_growth_rates = <<>> /\ wacc = Zero /\ terminal_growth = Zero /\ years = 0
    /\ IdleSafeFloat /\ IdleMetrics /\ IdleOutputs /\ IdleGrowth /\ IdleWacc

NextGrowth ==
    RunFetchFcfGrowthAndPeg \/ RunFetchGrowthEstimate \/ BlendGrowth \/ BuildGrowthPath

SpecGrowth == InitGrowth /\ [][NextGrowth]_vars

\* calculate_wacc on the provider's records.  Prices, share counts and debts
\* are never negative.
RawBeta == {Absent, StrOf("2"), NoneStr}
RawWaccShares == {Absent, StrOf("2"), NoneStr}
RawPreviousClose == {StrOf("5"), StrOf("0")}
RawShort == {Absent, StrOf("1")}
RawLong == {NoneStr, StrOf("3")}
RawInterest == {PyStr(<<".", "1">>), PyStr(<<"-", "1">>)}
RawTaxes == {StrOf("1")}
RawPreTax == {StrOf("0"), StrOf("4")}

InitWacc ==
    /\ pc = "fetch_market_value_equity"
    /\ overview \in [SharesOutstanding : RawWaccShares, MarketCapitalization : {Absent},
                      PEGRatio : {Absent}, ForwardPE : {Absent},
                      Beta : RawBeta, PreviousClose : RawPreviousClose]
    /\ balance_data \in [shortTermDebt : RawShort, longTermDebt : RawLong,
                          cashAndCashEquivalentsAtCarryingValue : {Absent}]
    /\ income_data \in [interestExpense : RawInterest, incomeTaxExpense : RawTaxes,
                         incomeBeforeTax : RawPreTax]
    /\ fetch_ok \in [overview : BOOLEAN, cash_flow : {TRUE}, estimates : {TRUE},
                      fmp_income : {TRUE}, balance : BOOLEAN, income : BOOLEAN]
    /\ cash_flow = <<>> /\ estimates_data = <<>> /\ fmp_income = <<>>
    /\ cash_data = NoCashData
    /\ all_growth_rates = <<>> /\ wacc = Zero /\ terminal_growth = Zero /\ years = 0
    /\ IdleSafeFloat /\ IdleMetrics /\ IdleOutputs /\ IdleGrowth /\ IdleWacc

NextWacc == RunFetchMarketValueEquity \/ RunFetchDebtExpenseTaxrate \/ RunCalculateWacc

SpecWacc == InitWacc /\ [][NextWacc]_vars

(***************************************************************************)
(* The discounted-cash-flow value as the textbook recurrences give it      *)
(***************************************************************************)
RECURSIVE RefCashFlow(_, _, _)
RefCashFlow(base, rates, t) ==
    IF t = 0 THEN base ELSE FMul(RefCashFlow(base, rates, t - 1), FAdd(One, rates[t]))

RefTerminal(base, rates, w, tg, n) ==
    FDiv(FMul(RefCashFlow(base, rates, n), FAdd(One, tg)), FSub(w, tg))

\* The value, one year before year t, of the cash flows of the years t..n and
\* of the terminal value.
RECURSIVE RefValueFrom(_, _, _, _, _, _)
RefValueFrom(base, rates, w, tg, n, t) ==
    IF t = n
    THEN FDiv(FAdd(RefCashFlow(base, rates, n), RefTerminal(base, rates, w, tg, n)),
              FAdd(One, w))
    ELSE FDiv(FAdd(RefCashFlow(base, rates, t), RefValueFrom(base, rates, w, tg, n, t + 1)),
              FAdd(One, w))

----------------------------------------------------------------------------
\* C7: safe_float never lets an exception escape: whatever the value, the call
\* returns a float.
C7_NoExceptionEscapes == pc = "done" => sf_result.err = ""

\* C1: whenever calculate_dcf is called with wacc <= terminal_growth it reports
\* InvalidModelInput instead of returning a number.
C1_InvalidInputReported ==
    (pc \in {"assemble", "done"} /\ FLe(wacc, terminal_growth))
        => dcf_value.err = "InvalidModelInput"

\* C9: with wacc > terminal_growth and a growth sequence of length years,
\* calculate_dcf returns the sum of cf_t / (1+wacc)^t over t = 1..years plus
\* TV / (1+wacc)^years, where cf_1 = base * (1+g_1), cf_t = cf_(t-1) * (1+g_t) and
\* TV = cf_years * (1+terminal_growth) / (wacc - terminal_growth); base 100 growing
\* 5% a year gives cf_1 = 105 and cf_years = 100 * 1.05^years.
C9_DcfFormula ==
    (pc \in {"assemble", "done"} /\ FGt(wacc, terminal_growth) /\ Len(all_growth_rates) = years)
        => /\ Len(cash_flows) = years
           /\ \A t \in 1..years : cash_flows[t] = RefCashFlow(fcf, all_growth_rates, t)
           /\ dcf_value = Ok(RefValueFrom(fcf, all_growth_rates, wacc, terminal_growth, years, 1))
           /\ (fcf = <<100, 1>> /\ all_growth_rates = Flat(<<1, 20>>, years))
                 => /\ cash_flows[1] = <<105, 1>>
                    /\ cash_flows[years] = FMul(<<100, 1>>, FPow(<<21, 20>>, years))

C9_Witness ==
    /\ pc = "assemble"
    /\ FGt(wacc, terminal_growth)
    /\ years = MaxYears
    /\ all_growth_rates[1] # all_growth_rates[2]
    /\ fcf # Zero
    /\ IsFinite(dcf_value.v) /\ dcf_value.v # Zero

\* C3: the verdict is one of Undervalued, Overvalued, Equal: Undervalued when
\* intrinsic_value > current_price, Overvalued when it is smaller, Equal when
\* the two are equal.
C3_VerdictThreeWay ==
    pc = "done"
        => /\ verdict \in {"Undervalued", "Overvalued", "Equal"}
           /\ FGt(intrinsic_value, current_price) => verdict = "Undervalued"
           /\ FLt(intrinsic_value, current_price) => verdict = "Overvalued"
           /\ (IsFinite(intrinsic_value) /\ intrinsic_value = current_price)
                 => verdict = "Equal"

\* C4: whatever the provider supplies as SharesOutstanding, the share count the
\* main run divides by is never 0.
C4_DivisorNeverZero ==
    pc \in {"calculate_dcf", "assemble", "done"} => shares_outstanding # Zero

\* C5: capex is subtracted as a positive outflow whatever its sign:
\* free_cash_flow = ocf - |capex|, which never exceeds ocf.
C5_CapexAlwaysSubtracted ==
    pc \in {"calculate_dcf", "assemble", "done"}
        => /\ fcf = FSub(ocf, FAbs(capex))
           /\ FLe(fcf, ocf)

\* C2: whichever of the three signal fetches fail, the main run computes the
\* blended near-term rate as a number and no error is raised.
C2_BlendNeverFails ==
    pc \in {"path", "done"} => halted = ""

\* The path of the main run: its tail, and what "between" and "monotone" mean.
PathTail == SubSeq(all_growth_rates, NearTermYears + 1, Len(all_growth_rates))

PathBuilt == pc = "done" /\ halted = "" /\ all_growth_rates # <<>>

PathShape ==
    /\ Len(all_growth_rates) = 10
    /\ \A i \in 1..NearTermYears : all_growth_rates[i] = growth_1to5
    /\ Len(PathTail) = 5
    /\ LET step == FSub(PathTail[1], growth_1to5)
       IN  /\ \A i \in 1..4 : FSub(PathTail[i + 1], PathTail[i]) = step
           /\ FSub(TerminalGrowthRate, PathTail[5]) = step
    /\ IF FGt(growth_1to5, TerminalGrowthRate)
       THEN \A i \in 1..9 : FLe(all_growth_rates[i + 1], all_growth_rates[i])
       ELSE \A i \in 1..9 : FLe(all_growth_rates[i], all_growth_rates[i + 1])

StrictlyBetween(x, a, b) == (FLt(a, x) /\ FLt(x, b)) \/ (FLt(b, x) /\ FLt(x, a))

\* C8 as claimed: the path has 10 entries, its 5 tail values are evenly spaced,
\* lie strictly between the terminal rate and the blended rate, and the path is
\* non-increasing when the blended rate exceeds the terminal rate and
\* non-decreasing otherwise.
C8_TailStrictlyBetween ==
    PathBuilt
        => /\ PathShape
           /\ \A i \in 1..Len(PathTail) :
                 StrictlyBetween(PathTail[i], TerminalGrowthRate, growth_1to5)

\* C8 as amended: the same, with the tail strictly between the two rates when
\* they differ, and every entry equal to that rate when they are equal.
C8_TailBetweenUnlessEqual ==
    PathBuilt
        => /\ PathShape
           /\ growth_1to5 # TerminalGrowthRate
                 => \A i \in 1..Len(PathTail) :
                       StrictlyBetween(PathTail[i], TerminalGrowthRate, growth_1to5)
           /\ growth_1to5 = TerminalGrowthRate
                 => \A i \in 1..Len(all_growth_rates) : all_growth_rates[i] = TerminalGrowthRate

C8_Witness ==
    /\ PathBuilt
    /\ FGt(growth_1to5, TerminalGrowthRate)
    /\ Len(all_growth_rates) = 10
    /\ FLt(all_growth_rates[10], all_growth_rates[6])

FMin(x, y) == IF FLt(x, y) THEN x ELSE y
FMax(x, y) == IF FLt(x, y) THEN y ELSE x
InUnit(x) == FLe(Zero, x) /\ FLe(x, One)

OwnBeta == PyFloat(GetOr(overview, "Beta", PyNum(<<6, 5>>)))
OwnShares == PyInt(GetOr(overview, "SharesOutstanding", PyNum(DefaultShares)))
OwnPrice == PyFloat(GetOr(overview, "PreviousClose", PyNum(<<200, 1>>)))
OwnDebt ==
    FAdd(SafeFloat(GetOr(balance_data, "shortTermDebt", PyNum(Zero)), Zero),
         SafeFloat(GetOr(balance_data, "longTermDebt", PyNum(Zero)), Zero))
OwnInterest == FAbs(SafeFloat(GetOr(income_data, "interestExpense", PyNum(Zero)), Zero))
OwnTaxRate ==
    TaxRate(SafeFloat(GetOr(income_data, "incomeTaxExpense", PyNum(Zero)), Zero),
            SafeFloat(GetOr(income_data, "incomeBeforeTax", PyNum(Zero)), Zero))

BetaObtained == fetch_ok.overview /\ OwnBeta.err = ""
EquityObtained == fetch_ok.overview /\ OwnShares.err = "" /\ OwnPrice.err = ""
DebtObtained == fetch_ok.balance
IncomeObtained == fetch_ok.income

FallbackTaxRate == TaxRate(DebtFallback[3], DebtFallback[4])

\* C10 as claimed: each input of calculate_wacc falls back on its own: an input
\* that could not be obtained takes its fallback constant, and every input that
\* was obtained keeps its fetched value in the result.
C10_IndependentFallbacks ==
    pc = "done"
        => /\ wacc_info.beta = IF BetaObtained THEN OwnBeta.v ELSE BetaFallback
           /\ wacc_info.market_value_equity =
                 IF EquityObtained THEN FMul(OwnPrice.v, OwnShares.v) ELSE EquityFallback
           /\ wacc_info.total_debt = IF DebtObtained THEN OwnDebt ELSE DebtFallback[1]
           /\ wacc_info.tax_rate = IF IncomeObtained THEN OwnTaxRate ELSE FallbackTaxRate

\* C10 as amended: the fallbacks are per fetch function.  beta and
\* market_value_equity keep their fetched values only when the overview is
\* fetched and Beta, SharesOutstanding and PreviousClose all convert, and
\* otherwise both take their fallbacks; total debt, interest expense and the tax
\* figures keep theirs only when both the balance sheet and the income
\* statement are fetched, and otherwise all take their fallbacks; neither group
\* depends on the other, and calculate_wacc returns a number in every case.
C10_FallbacksPerFetch ==
    pc = "done"
        => LET equityGroup == BetaObtained /\ EquityObtained
               debtGroup == DebtObtained /\ IncomeObtained
           IN  /\ wacc_info.beta = IF equityGroup THEN OwnBeta.v ELSE BetaFallback
               /\ wacc_info.market_value_equity =
                     IF equityGroup THEN FMul(OwnPrice.v, OwnShares.v) ELSE EquityFallback
               /\ wacc_info.total_debt = IF debtGroup THEN OwnDebt ELSE DebtFallback[1]
               /\ interest_expense = IF debtGroup THEN OwnInterest ELSE DebtFallback[2]
               /\ wacc_info.tax_rate = IF debtGroup THEN OwnTaxRate ELSE FallbackTaxRate
               /\ IsFinite(wacc) /\ wacc = wacc_info.wacc

C10_Witness ==
    /\ pc = "done"
    /\ fetch_ok.overview /\ OwnBeta.err # "" /\ EquityObtained
    /\ FMul(OwnPrice.v, OwnShares.v) # EquityFallback
    /\ wacc_info.market_value_equity = EquityFallback
    /\ DebtObtained /\ IncomeObtained
    /\ wacc_info.total_debt = OwnDebt /\ OwnDebt # DebtFallback[1]

====
